---- MODULE Spec2Model ----
(***************************************************************************)
(* readfilez: mmap-or-buffer file access (src/lib.rs, src/backend.rs).     *)
(*                                                                         *)
(* The model keeps the machine integers of the source at a reduced word    *)
(* width: u64/usize are WordBits wide, i64/isize are their signed          *)
(* counterparts, so isize::MAX = 2^(WordBits-1) - 1.  The target is a      *)
(* 64-bit one (usize and u64 have the same width, `as usize` is the        *)
(* identity).                                                              *)
(*                                                                         *)
(* Environment, fixed per behaviour:                                       *)
(*   file            the bytes of the (unchanged) underlying file;         *)
(*   metaOk          whether fh.metadata() succeeds (get_file_len = Some); *)
(*   overflowChecks  whether the build traps integer overflow (debug       *)
(*                   profile: panic) or wraps (release profile).           *)
(* Environment, chosen per call: whether the platform mapping primitive    *)
(* succeeds.  The underlying reads deliver min(requested, available) bytes *)
(* and raise no device error.                                              *)
(***************************************************************************)
EXTENDS Integers, Sequences, FiniteSets, TLC

VARIABLES file, metaOk, overflowChecks,   \* environment
          flen, offset,                   \* ContinuableFile fields
          lns,                            \* ChunkedFile.lns
          call, ret, pre,                 \* last call, its result, cursor before it
          items                           \* what ChunkedFile::next returned, call by call

vars == <<file, metaOk, overflowChecks, flen, offset, lns, call, ret, pre, items>>

---------------------------------------------------------------------------
(* Bounds of the model *)

WordBits == 4      \* width of u64 / usize in the model
MaxFileLen == 3    \* longest file
MaxBound == 4      \* largest LengthSpec.bound tried
MaxCalls == 6      \* longest recorded run of ChunkedFile::next calls

---------------------------------------------------------------------------
(* Machine integers *)

U64_MOD == 2 ^ WordBits
U64_MAX == U64_MOD - 1
I64_MAX == 2 ^ (WordBits - 1) - 1
I64_MIN == 0 - 2 ^ (WordBits - 1)

\* `v as u64` of a signed value: two's complement reinterpretation
as_u64(v) == v % U64_MOD

Min(a, b) == IF a < b THEN a ELSE b

\* Option<T>
None == <<>>
Some(v) == <<v>>
unwrap(o) == o[1]
unwrap_or(o, d) == IF o = None THEN d ELSE o[1]

\* the file's bytes at positions o .. o+n-1 (0-based), n within the file
Slice(o, n) == [i \in 1..n |-> file[o + i]]

\* bytes between position o and end-of-file
Avail(o) == IF o >= Len(file) THEN 0 ELSE Len(file) - o

Panic == [status |-> "panic", kind |-> "overflow", bytes |-> <<>>]
Err(k) == [status |-> "err", kind |-> k, bytes |-> <<>>]
Ok(k, b) == [status |-> "ok", kind |-> k, bytes |-> b]
\* reaching unreachable_unchecked(): undefined behaviour
Unreachable == [status |-> "ub", kind |-> "unreachable_unchecked", bytes |-> <<>>]
\* a result of read_part_from_file_intern together with the path taken: the
\* resolver's outcome, the length a mapping was attempted with (None: no
\* attempt) and whether the buffered section was entered
Traced(r, evl, mm, buf) ==
    [status |-> r.status, kind |-> r.kind, bytes |-> r.bytes,
     evl |-> evl, mmap |-> mm, buffered |-> buf]

---------------------------------------------------------------------------
(* src/lib.rs *)

LengthSpec(bound, is_exact) == [bound |-> bound, is_exact |-> is_exact]

get_file_len == IF metaOk THEN Some(Len(file)) ELSE None

---------------------------------------------------------------------------
(* src/backend.rs *)

maxlen_i == I64_MAX

\* The platform mapping primitive.  `go` is the environment's verdict; an
\* offset that does not fit off_t is refused by the system in any case.  A
\* mapping exposes `len` bytes; those past end-of-file read as 0 here (on
\* the real system they are zero within the last page and fault beyond it).
open_as_mmap(off, len, go) ==
    IF go /\ off <= I64_MAX
    THEN Some([i \in 1..len |-> IF off + i <= Len(file) THEN file[off + i] ELSE 0])
    ELSE None

ELUnknown == [tag |-> "ELUnknown", n |-> 0]
ELImpossible == [tag |-> "ELImpossible", n |-> 0]
ELBounded(n) == [tag |-> "ELBounded", n |-> n]
ELPanic == [tag |-> "panic", n |-> 0]

\* eval_length with the clamp test off by one (`x >= maxlen`)
eval_length_strict(off, lenspec, flen_hint) ==
    LET is_untileof == lenspec.bound = None
        x == unwrap_or(lenspec.bound, maxlen_i)
        fl == IF flen_hint # None THEN flen_hint ELSE get_file_len
        underflow == fl # None /\ unwrap(fl) < off
        maxlen_f == IF fl = None THEN maxlen_i
                    ELSE (unwrap(fl) - off) % U64_MOD
        maxlen == Min(maxlen_f, maxlen_i)
    IN  IF underflow /\ overflowChecks THEN ELPanic
        ELSE IF x >= maxlen
             THEN IF ~lenspec.is_exact THEN ELBounded(maxlen)
                  ELSE IF ~is_untileof THEN ELImpossible
                  ELSE IF maxlen = maxlen_i THEN ELUnknown
                  ELSE ELBounded(maxlen)
             ELSE IF is_untileof THEN ELUnknown
                  ELSE ELBounded(x)

\* eval_length without the clamp to maxlen_i (`maxlen = maxlen_f`)
eval_length_noclamp(off, lenspec, flen_hint) ==
    LET is_untileof == lenspec.bound = None
        x == unwrap_or(lenspec.bound, maxlen_i)
        fl == IF flen_hint # None THEN flen_hint ELSE get_file_len
        underflow == fl # None /\ unwrap(fl) < off
        maxlen_f == IF fl = None THEN maxlen_i
                    ELSE (unwrap(fl) - off) % U64_MOD
        maxlen == maxlen_f
    IN  IF underflow /\ overflowChecks THEN ELPanic
        ELSE IF x > maxlen
             THEN IF ~lenspec.is_exact THEN ELBounded(maxlen)
                  ELSE IF ~is_untileof THEN ELImpossible
                  ELSE IF maxlen = maxlen_i THEN ELUnknown
                  ELSE ELBounded(maxlen)
             ELSE IF is_untileof THEN ELUnknown
                  ELSE ELBounded(x)

eval_length(off, lenspec, flen_hint) ==
    LET is_untileof == lenspec.bound = None
        x == unwrap_or(lenspec.bound, maxlen_i)
        fl == IF flen_hint # None THEN flen_hint ELSE get_file_len
        underflow == fl # None /\ unwrap(fl) < off
        maxlen_f == IF fl = None THEN maxlen_i
                    ELSE (unwrap(fl) - off) % U64_MOD
        maxlen == Min(maxlen_f, maxlen_i)
    IN  IF underflow /\ overflowChecks THEN ELPanic
        ELSE IF x > maxlen
             THEN IF ~lenspec.is_exact THEN ELBounded(maxlen)
                  ELSE IF ~is_untileof THEN ELImpossible
                  ELSE IF maxlen = maxlen_i THEN ELUnknown
                  ELSE ELBounded(maxlen)
             ELSE IF is_untileof THEN ELUnknown
                  ELSE ELBounded(x)

\* the buffered section without its fh.seek: the read starts at position 0
BufferedRead_noseek(off, len, evl) ==
    IF evl.tag = "ELBounded"
    THEN IF len.is_exact
         THEN IF Avail(0) >= evl.n
              THEN Ok("Buffered", Slice(0, evl.n))
              ELSE Err("UnexpectedEof")
         ELSE LET m == Min(evl.n, Avail(0))
              IN  Ok("Buffered", [i \in 1..evl.n |-> IF i <= m THEN file[i] ELSE 0])
    ELSE Ok("Buffered", Slice(0, Avail(0)))

\* The buffered section of read_part_from_file_intern: fh.seek to the offset
\* (refused by the system when it does not fit off_t), then the read the
\* outcome calls for.  A non-exact bounded read fills the first m bytes of
\* the resized buffer and the buffer keeps its length.
BufferedRead(off, len, evl) ==
    IF off > I64_MAX THEN Err("SeekInvalidInput")
    ELSE IF evl.tag = "ELImpossible" THEN Unreachable
    ELSE IF evl.tag = "ELBounded"
         THEN IF len.is_exact
              THEN IF Avail(off) >= evl.n
                   THEN Ok("Buffered", Slice(off, evl.n))
                   ELSE Err("UnexpectedEof")
              ELSE LET m == Min(evl.n, Avail(off))
                   IN  Ok("Buffered", [i \in 1..evl.n |->
                                          IF i <= m THEN file[off + i] ELSE 0])
         ELSE Ok("Buffered", Slice(off, Avail(off)))

\* read_part_from_file_intern returning the mapping's failure (`open_as_mmap(..)?`)
read_part_from_file_intern_maperr(off, len, flen_hint, go) ==
    LET evl == eval_length(off, len, flen_hint)
        tried == IF evl.tag = "ELBounded" THEN Some(evl.n) ELSE None
    IN  IF evl.tag = "panic" THEN Traced(Panic, evl, None, FALSE)
        ELSE IF evl.tag = "ELImpossible"
             THEN Traced(Err("InvalidInput"), evl, None, FALSE)
        ELSE IF evl.tag = "ELBounded" /\ evl.n = 0
             THEN Traced(Ok("Buffered", <<>>), evl, None, FALSE)
        ELSE IF evl.tag = "ELBounded" /\ open_as_mmap(off, evl.n, go) # None
             THEN Traced(Ok("Mapped", unwrap(open_as_mmap(off, evl.n, go))),
                         evl, tried, FALSE)
        ELSE IF evl.tag = "ELBounded"
             THEN Traced(Err("MapError"), evl, tried, FALSE)
        ELSE Traced(BufferedRead(off, len, evl), evl, tried, TRUE)

\* read_part_from_file_intern whose ELImpossible arm does not return
read_part_from_file_intern_noreturn(off, len, flen_hint, go) ==
    LET evl == eval_length(off, len, flen_hint)
        tried == IF evl.tag = "ELBounded" THEN Some(evl.n) ELSE None
    IN  IF evl.tag = "panic" THEN Traced(Panic, evl, None, FALSE)
        ELSE IF evl.tag = "ELBounded" /\ evl.n = 0
             THEN Traced(Ok("Buffered", <<>>), evl, None, FALSE)
        ELSE IF evl.tag = "ELBounded" /\ open_as_mmap(off, evl.n, go) # None
             THEN Traced(Ok("Mapped", unwrap(open_as_mmap(off, evl.n, go))),
                         evl, tried, FALSE)
        ELSE Traced(BufferedRead(off, len, evl), evl, tried, TRUE)

\* The first match either returns (ELImpossible, ELBounded(0), a mapping
\* that succeeded) or falls through to the buffered section.
read_part_from_file_intern(off, len, flen_hint, go) ==
    LET evl == eval_length(off, len, flen_hint)
        tried == IF evl.tag = "ELBounded" THEN Some(evl.n) ELSE None
    IN  IF evl.tag = "panic" THEN Traced(Panic, evl, None, FALSE)
        ELSE IF evl.tag = "ELImpossible"
             THEN Traced(Err("InvalidInput"), evl, None, FALSE)
        ELSE IF evl.tag = "ELBounded" /\ evl.n = 0
             THEN Traced(Ok("Buffered", <<>>), evl, None, FALSE)
        ELSE IF evl.tag = "ELBounded" /\ open_as_mmap(off, evl.n, go) # None
             THEN Traced(Ok("Mapped", unwrap(open_as_mmap(off, evl.n, go))),
                         evl, tried, FALSE)
        ELSE Traced(BufferedRead(off, len, evl), evl, tried, TRUE)

---------------------------------------------------------------------------
(* Inputs *)

\* file bytes are non-zero, so that a byte no read has written (0) shows
Bytes == {1, 2}
Files == UNION {[1..n -> Bytes] : n \in 0..MaxFileLen}
\* one file of each length, its bytes alternating 1, 2, 1, ...
PatternFiles == {[i \in 1..n |-> 2 - (i % 2)] : n \in 0..MaxFileLen}
Bounds == {None} \cup {Some(n) : n \in 0..MaxBound} \cup {Some(maxlen_i + 1), Some(U64_MAX)}
LengthSpecs == {LengthSpec(b, e) : b \in Bounds, e \in BOOLEAN}
Offsets == (0..(MaxFileLen + 1)) \cup {I64_MAX, I64_MAX + 1, U64_MAX}

\* seek targets: around the file, and the extremes of the integer types
StartArgs == (0..(MaxFileLen + 1)) \cup {I64_MAX, I64_MAX + 1, U64_MAX}
DeltaArgs == ((0 - MaxFileLen - 1)..(MaxFileLen + 1)) \cup {I64_MIN, I64_MIN + 1, I64_MAX}
SeekFroms == {[whence |-> "Start", x |-> x] : x \in StartArgs}
             \cup {[whence |-> w, x |-> x] : w \in {"End", "Current"}, x \in DeltaArgs}

NoRet == [status |-> "none", kind |-> "", bytes |-> <<>>]

SeekEnd0 == [whence |-> "End", x |-> 0]

Env(files) ==
    /\ file \in files
    /\ metaOk \in BOOLEAN
    /\ overflowChecks \in BOOLEAN

---------------------------------------------------------------------------
(* Single-shot reads: read_part_from_file and read_from_file *)

read_part_from_file(off, len, go) == read_part_from_file_intern(off, len, None, go)

read_from_file(open_ok, go) ==
    IF ~open_ok THEN Traced(Err("OpenError"), ELUnknown, None, FALSE)
    ELSE read_part_from_file(0, LengthSpec(None, TRUE), go)

InitRead ==
    /\ Env(Files)
    /\ flen = None /\ offset = 0 /\ lns = LengthSpec(None, FALSE)
    /\ \/ \E o \in Offsets, l \in LengthSpecs, go \in BOOLEAN :
            call = [op |-> "read_part_from_file", offset |-> o, lns |-> l, go |-> go]
       \/ \E ok \in BOOLEAN, go \in BOOLEAN :
            call = [op |-> "read_from_file", offset |-> 0,
                    lns |-> LengthSpec(None, TRUE), go |-> go, open_ok |-> ok]
    /\ ret = NoRet
    /\ pre = [offset |-> 0, flen |-> None, end0 |-> FALSE]
    /\ items = <<>>

ReadPart ==
    /\ call.op = "read_part_from_file" /\ ret = NoRet
    /\ ret' = read_part_from_file(call.offset, call.lns, call.go)
    /\ UNCHANGED <<file, metaOk, overflowChecks, flen, offset, lns, call, pre, items>>

ReadFromFile ==
    /\ call.op = "read_from_file" /\ ret = NoRet
    /\ ret' = read_from_file(call.open_ok, call.go)
    /\ UNCHANGED <<file, metaOk, overflowChecks, flen, offset, lns, call, pre, items>>

NextRead == ReadPart \/ ReadFromFile

SpecRead == InitRead /\ [][NextRead]_vars

---------------------------------------------------------------------------
(* ContinuableFile *)

\* `-x` on i64 overflows for i64::MIN only; wrapped, it is i64::MIN again
neg_overflows(x) == x = I64_MIN
wrapping_neg(x) == IF x = I64_MIN THEN I64_MIN ELSE 0 - x

\* result of do_offset_add: an Option<u64>, or the panic of a trapped overflow
OptPanic == [panic |-> TRUE, opt |-> None]
Opt(o) == [panic |-> FALSE, opt |-> o]

do_offset_add(off, x) ==
    IF x < 0
    THEN IF neg_overflows(x) /\ overflowChecks THEN OptPanic
         ELSE LET xn == as_u64(wrapping_neg(x))
              IN  Opt(IF xn <= off THEN Some(off - xn) ELSE None)
    ELSE IF off + as_u64(x) > U64_MAX /\ overflowChecks THEN OptPanic
         ELSE Opt(Some((off + as_u64(x)) % U64_MOD))

oore == Err("InvalidInput")
SeekOk(v) == [status |-> "ok", kind |-> "Position", bytes |-> <<>>, val |-> v]

\* ContinuableFile::seek with End(x) taken from the start: offset = xn
ContinuableFile_seek_endabs(pos) ==
    IF pos.whence = "Start" THEN [ret |-> SeekOk(pos.x), offset |-> pos.x]
    ELSE IF pos.whence = "End"
    THEN IF neg_overflows(pos.x) /\ overflowChecks THEN [ret |-> Panic, offset |-> offset]
         ELSE LET xn == as_u64(wrapping_neg(pos.x))
              IN  IF pos.x > 0 \/ flen = None \/ xn > unwrap(flen)
                  THEN [ret |-> oore, offset |-> offset]
                  ELSE [ret |-> SeekOk(xn), offset |-> xn]
    ELSE LET y == do_offset_add(offset, pos.x)
         IN  IF y.panic THEN [ret |-> Panic, offset |-> offset]
             ELSE IF y.opt = None THEN [ret |-> oore, offset |-> offset]
             ELSE [ret |-> SeekOk(unwrap(y.opt)), offset |-> unwrap(y.opt)]

\* ContinuableFile::seek: the value returned and the offset afterwards
ContinuableFile_seek(pos) ==
    IF pos.whence = "Start" THEN [ret |-> SeekOk(pos.x), offset |-> pos.x]
    ELSE IF pos.whence = "End"
    THEN IF neg_overflows(pos.x) /\ overflowChecks THEN [ret |-> Panic, offset |-> offset]
         ELSE LET xn == as_u64(wrapping_neg(pos.x))
              IN  IF pos.x > 0 \/ flen = None \/ xn > unwrap(flen)
                  THEN [ret |-> oore, offset |-> offset]
                  ELSE [ret |-> SeekOk(unwrap(flen) - xn), offset |-> unwrap(flen) - xn]
    ELSE LET y == do_offset_add(offset, pos.x)
         IN  IF y.panic THEN [ret |-> Panic, offset |-> offset]
             ELSE IF y.opt = None THEN [ret |-> oore, offset |-> offset]
             ELSE [ret |-> SeekOk(unwrap(y.opt)), offset |-> unwrap(y.opt)]

\* ContinuableFile::next advancing by the bound asked for, not by the handle
ContinuableFile_next_bybound(l, go) ==
    LET rfh == read_part_from_file_intern(offset, l, flen, go)
        sum == offset + unwrap_or(l.bound, Len(rfh.bytes))
    IN  IF rfh.status # "ok" THEN [ret |-> rfh, offset |-> offset]
        ELSE IF sum > U64_MAX /\ overflowChecks THEN [ret |-> Panic, offset |-> offset]
        ELSE [ret |-> rfh, offset |-> sum % U64_MOD]

\* ContinuableFile::next: the value returned and the offset afterwards
ContinuableFile_next(l, go) ==
    LET rfh == read_part_from_file_intern(offset, l, flen, go)
        sum == offset + Len(rfh.bytes)
    IN  IF rfh.status # "ok" THEN [ret |-> rfh, offset |-> offset]
        ELSE IF sum > U64_MAX /\ overflowChecks THEN [ret |-> Panic, offset |-> offset]
        ELSE [ret |-> rfh, offset |-> sum % U64_MOD]

\* the cursor as a call finds it; end0: the call before was a successful seek(End(0))
PreOf ==
    [offset |-> offset, flen |-> flen,
     end0 |-> call.op = "seek" /\ call.pos = SeekEnd0 /\ ret.status = "ok"]

\* ContinuableFile::new(file).to_chunks(l)
InitCursor(files, l) ==
    /\ Env(files)
    /\ flen = get_file_len
    /\ offset = 0
    /\ lns = l
    /\ call = [op |-> "new"]
    /\ ret = NoRet
    /\ pre = [offset |-> 0, flen |-> flen, end0 |-> FALSE]
    /\ items = <<>>

Init == InitCursor(PatternFiles, LengthSpec(None, FALSE))

CfNext ==
    \E l \in LengthSpecs, go \in BOOLEAN :
        LET r == ContinuableFile_next(l, go)
        IN  /\ call' = [op |-> "next", lns |-> l, go |-> go]
            /\ ret' = r.ret
            /\ offset' = r.offset
            /\ pre' = PreOf
            /\ UNCHANGED <<file, metaOk, overflowChecks, flen, lns, items>>

Seek ==
    \E pos \in SeekFroms :
        LET r == ContinuableFile_seek(pos)
        IN  /\ call' = [op |-> "seek", pos |-> pos]
            /\ ret' = r.ret
            /\ offset' = r.offset
            /\ pre' = PreOf
            /\ UNCHANGED <<file, metaOk, overflowChecks, flen, lns, items>>

\* ContinuableFile::sync_len
SyncLen ==
    /\ call' = [op |-> "sync_len"]
    /\ ret' = NoRet
    /\ flen' = get_file_len
    /\ pre' = PreOf
    /\ UNCHANGED <<file, metaOk, overflowChecks, offset, lns, items>>

Next == CfNext \/ Seek \/ SyncLen

Spec == Init /\ [][Next]_vars

---------------------------------------------------------------------------
(* ChunkedFile *)

NoneItem == [some |-> FALSE, item |-> NoRet]
SomeItem(r) == [some |-> TRUE, item |-> r]

\* ChunkedFile::next: the Option returned and the cursor's offset afterwards
ChunkedFile_next(go) ==
    LET r == ContinuableFile_next(lns, go)
    IN  [ret |-> IF r.ret.status = "ok" /\ Len(r.ret.bytes) = 0
                 THEN NoneItem ELSE SomeItem(r.ret),
         offset |-> r.offset]

InitChunks == \E l \in LengthSpecs : InitCursor(Files, l)

ChunkNext ==
    /\ Len(items) < MaxCalls
    /\ \E go \in BOOLEAN :
        LET r == ChunkedFile_next(go)
        IN  /\ call' = [op |-> "chunk_next", lns |-> lns, go |-> go]
            /\ ret' = r.ret.item
            /\ items' = Append(items, r.ret)
            /\ offset' = r.offset
            /\ pre' = PreOf
            /\ UNCHANGED <<file, metaOk, overflowChecks, flen, lns>>

\* ChunkedFile::size_hint: (lower bound, upper bound), or the panic of the
\* trapped subtraction
ChunkedFile_size_hint ==
    IF flen = None
    THEN [status |-> "ok", kind |-> "size_hint", bytes |-> <<>>, lo |-> 0, hi |-> None]
    ELSE IF unwrap(flen) < offset /\ overflowChecks THEN Panic
    ELSE [status |-> "ok", kind |-> "size_hint", bytes |-> <<>>,
          lo |-> (unwrap(flen) - offset) % U64_MOD, hi |-> None]

SizeHint ==
    /\ call' = [op |-> "size_hint"]
    /\ ret' = ChunkedFile_size_hint
    /\ pre' = PreOf
    /\ UNCHANGED <<file, metaOk, overflowChecks, flen, offset, lns, items>>

NextChunks == ChunkNext \/ SizeHint

SpecChunks == InitChunks /\ [][NextChunks]_vars

---------------------------------------------------------------------------
(* Properties of the single-shot reads, checked under SpecRead *)

\* a read_part_from_file call with a concrete bound has returned
ReadPartDone == call.op = "read_part_from_file" /\ ret # NoRet
BoundedCall == call.lns.bound # None
ReqLen == unwrap(call.lns.bound)
\* the bytes of the file from position o (0-based) to end-of-file
FromOffset(o) == SubSeq(file, o + 1, Len(file))

\* C1: with the file length known, an exact request of n bytes at offset o,
\* o <= L and n <= L - o, succeeds with exactly the n bytes file[o .. o+n],
\* whether the mapping succeeds or the buffered path is taken.
C1_ExactWithinFile ==
    (/\ ReadPartDone /\ metaOk /\ BoundedCall /\ call.lns.is_exact
     /\ call.offset <= Len(file)
     /\ ReqLen <= Len(file) - call.offset)
    => /\ ret.status = "ok"
       /\ Len(ret.bytes) = ReqLen
       /\ ret.bytes = SubSeq(file, call.offset + 1, call.offset + ReqLen)
       /\ ReqLen > 0 => ret.kind = (IF call.go THEN "Mapped" ELSE "Buffered")

C1_Witness ==
    /\ ReadPartDone /\ metaOk /\ BoundedCall /\ call.lns.is_exact
    /\ call.offset >= 1 /\ call.offset + ReqLen = Len(file) /\ ReqLen >= 2
    /\ ~call.go /\ ret.status = "ok" /\ ret.kind = "Buffered"

\* C2: an exact request of n bytes with n greater than the bytes remaining
\* after the offset fails with an error and returns no handle, with the file
\* length known or unknown.  (Stated here for offsets within the file.)
C2_ExactBeyondFileFails ==
    (/\ ReadPartDone /\ BoundedCall /\ call.lns.is_exact
     /\ call.offset <= Len(file)
     /\ ReqLen > Len(file) - call.offset)
    => ret.status = "err"

\* C3: a non-exact request of n bytes with n greater than the bytes remaining
\* succeeds and the handle holds exactly the remaining bytes file[o .. L].
\* (Stated here for offsets within the file.)
C3_NonExactClamps ==
    (/\ ReadPartDone /\ BoundedCall /\ ~call.lns.is_exact
     /\ call.offset <= Len(file)
     /\ ReqLen > Len(file) - call.offset)
    => /\ ret.status = "ok"
       /\ Len(ret.bytes) = Len(file) - call.offset
       /\ ret.bytes = FromOffset(call.offset)

\* C4: an unbounded request, exact or not, at an offset within the file
\* returns every byte from the offset to end-of-file, with the file length
\* known or unknown; read_from_file on an opened file returns the whole file.
C4_UnboundedReadsToEof ==
    /\ (/\ ReadPartDone /\ ~BoundedCall /\ call.offset <= Len(file))
       => /\ ret.status = "ok"
          /\ ret.bytes = FromOffset(call.offset)
    /\ (call.op = "read_from_file" /\ ret # NoRet /\ call.open_ok)
       => /\ ret.status = "ok"
          /\ ret.bytes = file

C4_Witness ==
    /\ ReadPartDone /\ ~BoundedCall /\ ~metaOk /\ ~call.lns.is_exact
    /\ call.offset = 1 /\ Len(file) >= 3
    /\ ret.status = "ok" /\ Len(ret.bytes) = Len(file) - 1

---------------------------------------------------------------------------
(* Properties of chunked iteration, checked under SpecChunks: a fresh cursor
   at offset 0 turned into a ChunkedFile, and only its next called *)

\* the fixed request has a concrete bound k >= 1
ChunkBounded == lns.bound # None /\ unwrap(lns.bound) >= 1
ChunkK == unwrap(lns.bound)
IsNone(i) == ~items[i].some
IsErr(i) == items[i].some /\ items[i].item.status = "err"
IsHandle(i) == items[i].some /\ items[i].item.status = "ok"
NoneSeen == \E i \in 1..Len(items) : IsNone(i)
\* the number of elements yielded before the first `None`
YieldedCount ==
    IF NoneSeen
    THEN (CHOOSE i \in 1..Len(items) : IsNone(i) /\ \A j \in 1..(i - 1) : ~IsNone(j)) - 1
    ELSE Len(items)

RECURSIVE ConcatHandles(_)
\* the bytes of the handles among the first n elements, in order
ConcatHandles(n) ==
    IF n = 0 THEN <<>>
    ELSE ConcatHandles(n - 1) \o (IF IsHandle(n) THEN items[n].item.bytes ELSE <<>>)

IsPrefix(a, b) == Len(a) <= Len(b) /\ a = SubSeq(b, 1, Len(a))

CeilDiv(a, b) == (a + b - 1) \div b

\* C5: for a bound k >= 1 the handles yielded by chunked iteration from
\* offset 0, concatenated, are the bytes of the whole file: what has been
\* yielded so far is a prefix of the file, and all of it once the iteration
\* has reported its end.
C5_ChunksConcatToFile ==
    ChunkBounded =>
        /\ IsPrefix(ConcatHandles(YieldedCount), file)
        /\ NoneSeen => ConcatHandles(YieldedCount) = file

\* C6: chunked iteration with bound k >= 1 over a file of length L yields
\* exactly ceil(L/k) handles, each of length k except the last, of length
\* L mod k (k when k divides L), and then reports the end; no zero-length
\* handle is yielded.
C6_ChunkCountAndLengths ==
    ChunkBounded =>
        LET L == Len(file)
            n == CeilDiv(L, ChunkK)
        IN  /\ \A i \in 1..Len(items) :
                  /\ i <= n => /\ IsHandle(i)
                               /\ Len(items[i].item.bytes) =
                                      (IF i * ChunkK <= L THEN ChunkK ELSE L - (i - 1) * ChunkK)
                  /\ i = n + 1 => IsNone(i)
                  /\ IsHandle(i) => Len(items[i].item.bytes) > 0

\* C7: the chunked sequence is finite.  A file of L bytes yields at most L
\* non-empty handles and, after an error, the end; so a run of L + 2 calls
\* has been told `no more elements`.
C7_ChunksFinite ==
    (ChunkBounded /\ Len(items) >= Len(file) + 2) => NoneSeen

\* C8: an error ends the sequence: the call after one that yielded an error
\* returns `no more elements`.
C8_ErrorEndsSequence ==
    \A i \in 1..(Len(items) - 1) : IsErr(i) => IsNone(i + 1)

---------------------------------------------------------------------------
(* Properties of the cursor, checked under Spec *)

\* C9: ContinuableFile::next advances the offset by exactly the length of
\* the handle it returns, and leaves offset and cached length alone when it
\* does not return one.
C9_NextAdvancesByHandleLen ==
    call.op = "next" =>
        /\ ret.status = "ok" => /\ offset = pre.offset + Len(ret.bytes)
                                /\ offset >= pre.offset
        /\ ret.status # "ok" => offset = pre.offset
        /\ flen = pre.flen

C9_Witness ==
    /\ call.op = "next" /\ ret.status = "ok" /\ pre.offset >= 1
    /\ Len(ret.bytes) >= 2 /\ offset = pre.offset + Len(ret.bytes)

C9_WitnessErr ==
    /\ call.op = "next" /\ ret.status = "err" /\ pre.offset >= 1 /\ offset = pre.offset

\* the seek just made would have produced a negative offset
SeekNegative ==
    /\ call.op = "seek"
    /\ \/ call.pos.whence = "Current" /\ pre.offset + call.pos.x < 0
       \/ /\ call.pos.whence = "End" /\ call.pos.x <= 0
          /\ (pre.flen = None \/ unwrap(pre.flen) + call.pos.x < 0)

\* C10: a relative or end-relative seek whose result would be negative
\* (or an end-relative one with the cached length unknown) returns an
\* InvalidInput error and leaves the offset unchanged.
C10_NegativeSeekRejected ==
    SeekNegative => /\ ret.status = "err" /\ ret.kind = "InvalidInput"
                    /\ offset = pre.offset

\* the seek just made is relative (Current) or end-relative (End)
RelativeSeek == call.op = "seek" /\ call.pos.whence \in {"Current", "End"}

\* the seek just made, met with a known cached length, would have led past it
SeekBeyondLen ==
    /\ RelativeSeek /\ pre.flen # None
    /\ \/ call.pos.whence = "Current" /\ pre.offset + call.pos.x > unwrap(pre.flen)
       \/ call.pos.whence = "End" /\ call.pos.x > 0

\* C11: with the cached length known, a Current or End seek whose result
\* would exceed the cached length returns an InvalidInput error and leaves
\* the offset unchanged (on which offset <= cached length after reads and
\* such seeks rests).
C11_SeekBeyondLenRejected ==
    SeekBeyondLen => /\ ret.status = "err" /\ ret.kind = "InvalidInput"
                     /\ offset = pre.offset

\* C12: seek(Start(x)) succeeds and sets the offset to x, also beyond the
\* known file length; a non-exact read (bounded or not) made with the offset
\* beyond the known length returns an empty handle.
C12_ReadBeyondLenIsEmpty ==
    /\ (call.op = "seek" /\ call.pos.whence = "Start")
       => ret.status = "ok" /\ offset = call.pos.x
    /\ (/\ call.op = "next" /\ ~call.lns.is_exact
        /\ pre.flen # None /\ pre.offset > unwrap(pre.flen))
       => ret.status = "ok" /\ ret.bytes = <<>>

\* seek(End(0)) has just been made with the cached length known
SeekEnd0Done == call.op = "seek" /\ call.pos = SeekEnd0 /\ pre.flen # None
\* a read with bound Some(1) has just been made right after a successful seek(End(0))
ReadOneAfterEnd0 == call.op = "next" /\ pre.end0 /\ call.lns.bound = Some(1)

\* C13 as claimed: with the cached length known, seek(End(0)) sets the offset
\* to the cached length, and a read with bound Some(1) that follows yields an
\* empty handle and leaves the offset at the file length.
C13_ReadAfterSeekEndIsEmpty_Claimed ==
    /\ SeekEnd0Done => ret.status = "ok" /\ offset = unwrap(flen)
    /\ ReadOneAfterEnd0
       => ret.status = "ok" /\ ret.bytes = <<>> /\ offset = unwrap(flen)

\* C13 as amended: the same for a non-exact read with bound Some(1) (an exact
\* one asks for a byte that is not there and fails with InvalidInput).
C13_ReadAfterSeekEndIsEmpty ==
    /\ SeekEnd0Done => ret.status = "ok" /\ offset = unwrap(flen)
    /\ (ReadOneAfterEnd0 /\ ~call.lns.is_exact)
       => ret.status = "ok" /\ ret.bytes = <<>> /\ offset = unwrap(flen)
    /\ (ReadOneAfterEnd0 /\ call.lns.is_exact)
       => ret.status = "err" /\ ret.kind = "InvalidInput" /\ offset = unwrap(flen)

C13_Witness ==
    /\ ReadOneAfterEnd0 /\ ~call.lns.is_exact /\ unwrap(flen) >= 2
    /\ ret.status = "ok" /\ ret.bytes = <<>> /\ offset = unwrap(flen)

\* C16: in the buffered fallback for Bounded(n) with is_exact = false the
\* handle holds the m = min(n, bytes left) bytes the read delivered, and the
\* cursor advances by m.
C16_BufferedHandleHasDeliveredLen ==
    (/\ call.op = "next" /\ ret.status = "ok" /\ ret.buffered
     /\ ret.evl.tag = "ELBounded" /\ ~call.lns.is_exact)
    => /\ Len(ret.bytes) = Min(ret.evl.n, Avail(pre.offset))
       /\ offset = pre.offset + Min(ret.evl.n, Avail(pre.offset))

\* C19: a Current or End seek either sets the offset to the exact
\* base + delta or is rejected with an error and leaves the offset alone; it
\* stores no wrapped value and does not abort.
C19_SeekArithmeticExact ==
    RelativeSeek =>
        \/ /\ ret.status = "ok"
           /\ call.pos.whence = "End" => pre.flen # None
           /\ offset = call.pos.x + (IF call.pos.whence = "Current" THEN pre.offset
                                     ELSE unwrap(pre.flen))
           /\ ret.val = offset
        \/ ret.status = "err" /\ offset = pre.offset

---------------------------------------------------------------------------
(* Properties of the path a read takes, checked under SpecRead *)

\* a single-shot read has returned
ReadDone == call.op \in {"read_part_from_file", "read_from_file"} /\ ret # NoRet
\* the read resolved to Bounded(n) with n > 0 and got no mapping
MapFailed == ret.evl.tag = "ELBounded" /\ ret.evl.n > 0 /\ ret.kind # "Mapped"
\* what a mapping of n bytes at offset o exposes
MappedBytes(o, n) == [i \in 1..n |-> IF o + i <= Len(file) THEN file[o + i] ELSE 0]

\* C14: a mapping is attempted only with a length n, 1 <= n <= maxlen_i:
\* every Bounded(n) has n <= maxlen_i, Bounded(0) returns an empty buffered
\* handle without mapping or reading, and Unknown and Impossible attempt no
\* mapping.
C14_MapOnlyWithinCeiling ==
    ReadDone =>
        /\ ret.evl.tag = "ELBounded" => ret.evl.n <= maxlen_i
        /\ ret.mmap # None => /\ 1 <= unwrap(ret.mmap) /\ unwrap(ret.mmap) <= maxlen_i
                              /\ ret.evl = ELBounded(unwrap(ret.mmap))
        /\ ret.evl = ELBounded(0) => /\ ret.status = "ok" /\ ret.kind = "Buffered"
                                     /\ ret.bytes = <<>>
                                     /\ ret.mmap = None /\ ~ret.buffered
        /\ ret.evl.tag \in {"ELUnknown", "ELImpossible"} => ret.mmap = None

C14_Witness ==
    /\ ReadPartDone /\ BoundedCall /\ ReqLen > maxlen_i
    /\ ret.evl = ELBounded(maxlen_i) /\ ret.mmap = Some(maxlen_i) /\ ret.kind = "Mapped"

\* C15: when the resolver yields Bounded(n), n > 0, and the mapping fails,
\* the buffered read is attempted and decides the outcome alone: the bytes a
\* successful mapping would have exposed, or the read's own error.
C15_MapFailureFallsBack ==
    (ReadPartDone /\ MapFailed) =>
        /\ ret.mmap = Some(ret.evl.n)
        /\ ret.buffered
        /\ \/ /\ ret.status = "ok" /\ ret.kind = "Buffered"
              /\ ret.bytes = MappedBytes(call.offset, ret.evl.n)
           \/ /\ ret.status = "err"
              /\ ret.kind = (IF call.offset > I64_MAX THEN "SeekInvalidInput"
                             ELSE "UnexpectedEof")
              /\ call.offset > I64_MAX
                 \/ (call.lns.is_exact /\ ret.evl.n > Avail(call.offset))

C15_Witness ==
    /\ ReadPartDone /\ MapFailed /\ ~call.go /\ ret.evl.n >= 2 /\ call.offset >= 1
    /\ call.offset + ret.evl.n <= Len(file)
    /\ ret.status = "ok" /\ ret.bytes = SubSeq(file, call.offset + 1, call.offset + ret.evl.n)

\* C20: the buffered section is never entered with the outcome Impossible
\* (unreachable_unchecked is not reached); it is entered only with Unknown,
\* or with Bounded(n), n > 0, whose mapping failed.
C20_BufferedNeverImpossible ==
    ReadDone =>
        /\ ret.status # "ub"
        /\ ret.evl.tag = "ELImpossible" => ~ret.buffered
        /\ ret.buffered =>
              \/ ret.evl.tag = "ELUnknown"
              \/ /\ ret.evl.tag = "ELBounded" /\ ret.evl.n > 0
                 /\ ret.mmap = Some(ret.evl.n)
                 /\ ~call.go \/ call.offset > I64_MAX

C20_Witness ==
    /\ ReadPartDone /\ ret.evl.tag = "ELImpossible"
    /\ ret.status = "err" /\ ret.kind = "InvalidInput" /\ ~ret.buffered

---------------------------------------------------------------------------
(* The resolver on its own: eval_length over every offset, bound and length hint *)

AllBounds == {None} \cup {Some(n) : n \in 0..U64_MAX}
AllLengthSpecs == {LengthSpec(b, e) : b \in AllBounds, e \in BOOLEAN}

\* with a hint given the file is not consulted
InitEval ==
    /\ overflowChecks \in BOOLEAN
    /\ \E o \in 0..U64_MAX, l \in AllLengthSpecs :
          \/ /\ file \in PatternFiles /\ metaOk \in BOOLEAN
             /\ call = [op |-> "eval_length", offset |-> o, lns |-> l, flen_hint |-> None]
          \/ /\ file = <<>> /\ metaOk = FALSE
             /\ \E h \in 0..U64_MAX :
                   call = [op |-> "eval_length", offset |-> o, lns |-> l,
                           flen_hint |-> Some(h)]
    /\ flen = None /\ offset = 0 /\ lns = LengthSpec(None, FALSE)
    /\ ret = NoRet
    /\ pre = [offset |-> 0, flen |-> None, end0 |-> FALSE]
    /\ items = <<>>

EvalLength ==
    /\ call.op = "eval_length" /\ ret = NoRet
    /\ LET evl == eval_length(call.offset, call.lns, call.flen_hint)
       IN  ret' = [status |-> IF evl.tag = "panic" THEN "panic" ELSE "ok",
                   kind |-> "EvaluatedLength", bytes |-> <<>>, evl |-> evl]
    /\ UNCHANGED <<file, metaOk, overflowChecks, flen, offset, lns, call, pre, items>>

NextEval == EvalLength

SpecEval == InitEval /\ [][NextEval]_vars

\* an eval_length call has returned
EvalDone == call.op = "eval_length" /\ ret # NoRet
\* the file length the call works with: the hint, else the queried length
KnownLen == IF call.flen_hint # None THEN call.flen_hint ELSE get_file_len
\* the offset lies within the file, when its length is known
OffsetWithinFile == KnownLen # None => call.offset <= unwrap(KnownLen)
\* a value above every usize: the +infinity of the decision algorithm
Infinity == U64_MOD

\* the decision algorithm, given what stands for the requested length of an
\* unbounded request
Decision(unbounded_req) ==
    LET maxlen == Min(IF KnownLen = None THEN Infinity
                      ELSE unwrap(KnownLen) - call.offset, maxlen_i)
        requested == IF call.lns.bound = None THEN unbounded_req ELSE unwrap(call.lns.bound)
    IN  IF requested > maxlen
        THEN IF ~call.lns.is_exact THEN ELBounded(maxlen)
             ELSE IF call.lns.bound # None THEN ELImpossible
             ELSE IF maxlen = maxlen_i THEN ELUnknown
             ELSE ELBounded(maxlen)
        ELSE IF call.lns.bound = None THEN ELUnknown
             ELSE ELBounded(requested)

\* C17 as claimed: for every offset within the file, bound, exactness and
\* known or unknown length, eval_length returns the outcome of the decision
\* algorithm with requested = bound or +infinity.
C17_EvalLengthIsDecision_Claimed ==
    (EvalDone /\ OffsetWithinFile) => ret.evl = Decision(Infinity)

\* C17 as amended: the same with requested = bound, or maxlen_i for an
\* unbounded request, so that an unbounded request whose maxlen is the
\* maxlen_i ceiling gets Unknown, exact or not.
C17_EvalLengthIsDecision ==
    (EvalDone /\ OffsetWithinFile) => ret.evl = Decision(maxlen_i)

C17_Witness ==
    /\ EvalDone /\ KnownLen = None /\ call.lns = LengthSpec(None, FALSE)
    /\ ret.evl = ELUnknown /\ Decision(Infinity) = ELBounded(maxlen_i)

---------------------------------------------------------------------------
(* ChunkedFile::size_hint, checked under SpecChunks *)

\* C18: size_hint reports floor((cached_length - offset) / bound) as its
\* estimate when the cached length and a finite bound are known and the
\* unknown estimate (0, no upper bound) otherwise; its lower bound never
\* exceeds the number of elements still to come (ceil((L - offset) / k) for
\* a non-exact bound k on a file of known length L).
C18_SizeHintEstimate ==
    (call.op = "size_hint" /\ ret.status = "ok") =>
        /\ ret.hi = None
        /\ ret.lo = (IF flen # None /\ ChunkBounded
                     THEN (unwrap(flen) - offset) \div ChunkK ELSE 0)
        /\ (flen # None /\ ChunkBounded /\ ~lns.is_exact /\ ~NoneSeen)
           => ret.lo <= CeilDiv(Len(file) - offset, ChunkK)

====
